---- MODULE Spec2Model ----
(***************************************************************************)
(* Model of group_sender.py: broadcast discovery, the per-mode dispatch    *)
(* streams, the continuous response listener and the tables they share     *)
(* (discovered_devices, pending_commands, the delay records).              *)
(*                                                                         *)
(* Representation choices:                                                 *)
(*  - a text payload is a sequence of one-character strings; the reply     *)
(*    marker word is kept as the single symbol "ESP_RECEIVER_ID" and a     *)
(*    byte that is not valid UTF-8 is the symbol "\\xff";                   *)
(*  - a Python dict is a sequence of entries in insertion order (dicts     *)
(*    iterate in insertion order);                                         *)
(*  - a response datagram is a record of its length and of the fields      *)
(*    struct.unpack reads from its first 22 bytes;                         *)
(*  - a delay sample delay_ms is stored as the integer 2000 * delay_ms,    *)
(*    that is (t4 - t1) - (t3 - t2): the two divisions by 2 and by 1000.0  *)
(*    are exact scalings of that integer.                                  *)
(***************************************************************************)
EXTENDS Integers, Sequences, FiniteSets, TLC

VARIABLES
    MEASUREMENT_ITERATIONS, \* args.iterations
    main_pc,                \* position of main()
    disc_sock,              \* discovery socket: "none" | "open" | "closed"
    disc_elapsed,           \* whole seconds since start_time in discovery
    disc_received,          \* datagrams received by the discovery loop
    disc_last,              \* discovery loop: the last (addr[0], data)
    discovered_devices,     \* ip -> (short_id, wifi_mode), insertion ordered
    pending_commands,       \* (ip, seq) -> t1
    delay_records,          \* ip -> list of delays
    wifi6_delay_records,    \* ip -> list of delays of WiFi 6 devices
    wifi4_delay_records,    \* ip -> list of delays of WiFi 4 devices
    response_queue,         \* list of (ip, seq, delay)
    stop_event,             \* global_stop_event / stop_event
    lst_pc,                 \* position of the listener thread
    lst_sock,               \* listener socket: "none" | "open" | "closed"
    lst_log,                \* the listener's last log line
    end_time,               \* response_listener: end_time
    st_pc,                  \* per stream: position of run_wifi_type_test
    st_i,                   \* per stream: loop index i
    st_j,                   \* per stream: index into target_devices
    st_t1,                  \* per stream: t1 returned by send_color_command
    st_sock,                \* per stream: send_sock
    now                     \* int(time.time() * 1_000_000), in model ticks

vars == <<MEASUREMENT_ITERATIONS, main_pc, disc_sock, disc_elapsed,
          disc_received, disc_last, discovered_devices, pending_commands,
          delay_records,
          wifi6_delay_records, wifi4_delay_records, response_queue,
          stop_event, lst_pc, lst_sock, lst_log, end_time, st_pc, st_i, st_j,
          st_t1, st_sock, now>>

(***************************************************************************)
(* Bounds of the model.                                                    *)
(***************************************************************************)
MaxIterations == 2      \* largest args.iterations explored
MaxDiscRecv == 2        \* discovery datagrams per round
MaxTime == 1            \* clock ticks explored
MaxSeqIterations == 1001  \* largest args.iterations of the sequence ranges

(***************************************************************************)
(* Program constants.                                                      *)
(***************************************************************************)
DISCOVERY_TIMEOUT == 3
DEFAULT_WIFI_MODE == 6
RESPONSE_LEN == 22
wifi6_seq_start == 1000
wifi4_seq_start == 2000
LISTENER_TIMEOUT == 2
CMD_LED_COLOR == 3

IPs == {"10.0.0.5", "10.0.0.9"}
Streams == {6, 4}

(***************************************************************************)
(* Text helpers: str.strip, str.startswith, str.split(":"), int().         *)
(***************************************************************************)
MARKER == "ESP_RECEIVER_ID"
Whitespace == {" ", "\n"}
DigitValue == [c \in {"0", "1", "2", "3", "4", "5", "6", "7", "8", "9"} |->
                 CASE c = "0" -> 0 [] c = "1" -> 1 [] c = "2" -> 2
                   [] c = "3" -> 3 [] c = "4" -> 4 [] c = "5" -> 5
                   [] c = "6" -> 6 [] c = "7" -> 7 [] c = "8" -> 8
                   [] c = "9" -> 9]

RECURSIVE LStrip(_)
LStrip(s) ==
    IF s # <<>> /\ Head(s) \in Whitespace THEN LStrip(Tail(s)) ELSE s

RECURSIVE RStrip(_)
RStrip(s) ==
    IF s # <<>> /\ s[Len(s)] \in Whitespace
    THEN RStrip(SubSeq(s, 1, Len(s) - 1))
    ELSE s

Strip(s) == RStrip(LStrip(s))

\* data.decode(): fails (UnicodeDecodeError) on a byte that is not UTF-8
Decodable(data) == \A k \in 1..Len(data) : data[k] # "\\xff"

\* message.startswith("ESP_RECEIVER_ID:")
StartsWithMarker(message) ==
    /\ Len(message) >= 2
    /\ message[1] = MARKER
    /\ message[2] = ":"

\* message.split(":")
RECURSIVE Split(_)
Split(s) ==
    IF \A k \in 1..Len(s) : s[k] # ":"
    THEN <<s>>
    ELSE LET p == CHOOSE k \in 1..Len(s) :
                      s[k] = ":" /\ \A m \in 1..(k - 1) : s[m] # ":"
         IN  <<SubSeq(s, 1, p - 1)>> \o Split(SubSeq(s, p + 1, Len(s)))

\* the value of a non-empty run of decimal digits
RECURSIVE DigitsValue(_)
DigitsValue(s) ==
    IF s = <<>> THEN 0
    ELSE 10 * DigitsValue(SubSeq(s, 1, Len(s) - 1)) + DigitValue[s[Len(s)]]

\* int(text): ok is FALSE where int() raises ValueError
ParseInt(text) ==
    LET t == Strip(text) IN
    IF t # <<>> /\ \A k \in 1..Len(t) : t[k] \in DOMAIN DigitValue
    THEN [ok |-> TRUE, value |-> DigitsValue(t)]
    ELSE [ok |-> FALSE, value |-> 0]

(***************************************************************************)
(* Dict helpers (insertion-ordered dicts as sequences of entries).         *)
(***************************************************************************)
\* ip in devices
HasDevice(devices, ip) == \E k \in 1..Len(devices) : devices[k].ip = ip

\* devices[ip]
DeviceInfo(devices, ip) ==
    devices[CHOOSE k \in 1..Len(devices) : devices[k].ip = ip]

\* {ip: info for ip, info in devices.items() if info[1] == wifi_mode}
RECURSIVE DevicesOfMode(_, _)
DevicesOfMode(devices, wifi_mode) ==
    IF devices = <<>> THEN <<>>
    ELSE IF Head(devices).wifi_mode = wifi_mode
         THEN <<Head(devices)>> \o DevicesOfMode(Tail(devices), wifi_mode)
         ELSE DevicesOfMode(Tail(devices), wifi_mode)

\* {ip: info for ip, info in devices.items() if info[1] != wifi_mode}
RECURSIVE DevicesNotOfMode(_, _)
DevicesNotOfMode(devices, wifi_mode) ==
    IF devices = <<>> THEN <<>>
    ELSE IF Head(devices).wifi_mode # wifi_mode
         THEN <<Head(devices)>> \o DevicesNotOfMode(Tail(devices), wifi_mode)
         ELSE DevicesNotOfMode(Tail(devices), wifi_mode)

\* variant: the assignment is lost
PendingPutLost(pending, key, t1) == pending

\* pending[key] = t1
PendingPut(pending, key, t1) ==
    [k \in DOMAIN pending \cup {key} |-> IF k = key THEN t1 ELSE pending[k]]

\* del pending[key]
PendingDel(pending, key) ==
    [k \in DOMAIN pending \ {key} |-> pending[k]]

(***************************************************************************)
(* send_broadcast_and_collect_responses                                    *)
(***************************************************************************)
\* the discovery datagrams explored
DiscoveryPayloads ==
    { <<MARKER, ":", "a", "b", ":", "4">>,
      <<MARKER, ":", "a", "b", ":", " ", "0", "4", "\n">>,
      <<MARKER, ":", "x", "y">>,
      <<MARKER, ":", "x", "y", ":", "n">>,
      <<MARKER, ":", "x", "y", ":">>,
      <<" ", MARKER, ":", " ", "x", "y", " ", ":", "6", ":", "4">>,
      <<MARKER, ":", "c", ":", "5">>,
      <<MARKER>>,
      <<"h", "i", ":", "4">>,
      <<"\\xff">> }

\* variant: the field is converted without the ValueError handler's default
ReplyModeUnchecked(parts) ==
    IF Len(parts) > 2 THEN ParseInt(parts[3]).value ELSE DEFAULT_WIFI_MODE

\* lines 159-164: the mode declared by the split reply, 6 when absent or invalid
ReplyMode(parts) ==
    IF Len(parts) > 2
    THEN LET r == ParseInt(parts[3]) IN
         IF r.ok THEN r.value ELSE DEFAULT_WIFI_MODE
    ELSE DEFAULT_WIFI_MODE

\* variant: a later reply of a known address replaces its entry
RegisterDeviceOverride(devices, ip, short_id, wifi_mode) ==
    IF ~HasDevice(devices, ip)
    THEN Append(devices, [ip |-> ip, short_id |-> short_id, wifi_mode |-> wifi_mode])
    ELSE [k \in 1..Len(devices) |->
            IF devices[k].ip = ip
            THEN [ip |-> ip, short_id |-> short_id, wifi_mode |-> wifi_mode]
            ELSE devices[k]]

\* lines 166-167: the first reply of an address is kept, later ones are ignored
RegisterDevice(devices, ip, short_id, wifi_mode) ==
    IF ~HasDevice(devices, ip)
    THEN Append(devices, [ip |-> ip, short_id |-> short_id, wifi_mode |-> wifi_mode])
    ELSE devices

\* lines 152-174: the effect of one decoded datagram on discovered_devices
HandleReply(devices, ip, data) ==
    LET message == Strip(data) IN
    IF StartsWithMarker(message)
    THEN LET parts == Split(message) IN
         RegisterDevice(devices, ip, Strip(parts[2]), ReplyMode(parts))
    ELSE devices

NoDatagram == [ip |-> "", data |-> <<>>]

DispatchVars == <<pending_commands, delay_records, wifi6_delay_records,
                  wifi4_delay_records, response_queue, stop_event, lst_pc,
                  lst_sock, lst_log, end_time, st_pc, st_i, st_j, st_t1,
                  st_sock, now>>

\* main, lines 584-585, and lines 119-137: the discovery socket is opened
MainStartDiscovery ==
    /\ main_pc = "start"
    /\ main_pc' = "discovery"
    /\ disc_sock' = "open"
    /\ disc_elapsed' = 0
    /\ disc_received' = 0
    /\ UNCHANGED <<MEASUREMENT_ITERATIONS, disc_last, discovered_devices>>
    /\ UNCHANGED DispatchVars

\* lines 144-174: recvfrom returns a datagram
DiscoveryRecv(ip, data) ==
    /\ main_pc = "discovery"
    /\ disc_elapsed < DISCOVERY_TIMEOUT
    /\ disc_received < MaxDiscRecv
    /\ disc_received' = disc_received + 1
    /\ disc_last' = [ip |-> ip, data |-> data]
    /\ IF Decodable(data)
       THEN /\ discovered_devices' = HandleReply(discovered_devices, ip, data)
            /\ main_pc' = main_pc
       ELSE \* UnicodeDecodeError is not socket.timeout: it leaves the function
            \* and main with the socket still open
            /\ discovered_devices' = discovered_devices
            /\ main_pc' = "crashed"
    /\ UNCHANGED <<MEASUREMENT_ITERATIONS, disc_sock, disc_elapsed>>
    /\ UNCHANGED DispatchVars

\* lines 175-177: recvfrom times out after 1 s, then sleep(0.1)
DiscoveryTimeout ==
    /\ main_pc = "discovery"
    /\ disc_elapsed < DISCOVERY_TIMEOUT
    /\ disc_elapsed' = disc_elapsed + 1
    /\ UNCHANGED <<MEASUREMENT_ITERATIONS, main_pc, disc_sock, disc_received,
                   disc_last, discovered_devices>>
    /\ UNCHANGED DispatchVars

\* lines 144, 179-180: the loop ends and the socket is closed
DiscoveryEnd ==
    /\ main_pc = "discovery"
    /\ ~(disc_elapsed < DISCOVERY_TIMEOUT)
    /\ disc_sock' = "closed"
    /\ main_pc' = "discovered"
    /\ disc_received' = 0
    /\ disc_last' = NoDatagram
    /\ UNCHANGED <<MEASUREMENT_ITERATIONS, disc_elapsed, discovered_devices>>
    /\ UNCHANGED DispatchVars

(***************************************************************************)
(* The clock: time.time() read by send_color_command (t1) and by the       *)
(* listener (t4).  It is read only while commands are dispatched.          *)
(***************************************************************************)
Tick ==
    /\ main_pc \in {"join_threads", "join_listener"}
    /\ now < MaxTime
    /\ now' = now + 1
    /\ UNCHANGED <<MEASUREMENT_ITERATIONS, main_pc, disc_sock, disc_elapsed,
                   disc_received, disc_last, discovered_devices,
                   pending_commands,
                   delay_records, wifi6_delay_records, wifi4_delay_records,
                   response_queue, stop_event, lst_pc, lst_sock, lst_log,
                   end_time, st_pc, st_i, st_j, st_t1, st_sock>>

(***************************************************************************)
(* main                                                                    *)
(***************************************************************************)
DiscoveryVars == <<disc_sock, disc_elapsed, disc_received, disc_last,
                   discovered_devices>>
StreamVars == <<st_pc, st_i, st_j, st_t1, st_sock>>
RecordVars == <<pending_commands, delay_records, wifi6_delay_records,
                wifi4_delay_records, response_queue>>

NoLog == [kind |-> "none", ip |-> "", seq |-> 0]

\* line 591
wifi6_devices == DevicesOfMode(discovered_devices, 6)
\* line 592
wifi4_devices == DevicesNotOfMode(discovered_devices, 6)

\* lines 586-588: nothing was discovered, main returns
MainNoDevices ==
    /\ main_pc = "discovered"
    /\ discovered_devices = <<>>
    /\ main_pc' = "no_devices"
    /\ UNCHANGED <<MEASUREMENT_ITERATIONS, now, end_time, stop_event, lst_pc,
                   lst_sock, lst_log>>
    /\ UNCHANGED DiscoveryVars
    /\ UNCHANGED StreamVars
    /\ UNCHANGED RecordVars

\* variant: the listener is started whatever discovery found
MainStartListenerAlways ==
    /\ main_pc = "discovered"
    /\ stop_event' = FALSE
    /\ response_queue' = <<>>
    /\ lst_pc' = "start"
    /\ main_pc' = "start_threads"
    /\ UNCHANGED <<MEASUREMENT_ITERATIONS, now, end_time, lst_sock, lst_log,
                   pending_commands, delay_records, wifi6_delay_records,
                   wifi4_delay_records>>
    /\ UNCHANGED DiscoveryVars
    /\ UNCHANGED StreamVars

\* lines 586-607: the stop event and the queue are created, the listener
\* thread is started
MainStartListener ==
    /\ main_pc = "discovered"
    /\ discovered_devices # <<>>
    /\ stop_event' = FALSE
    /\ response_queue' = <<>>
    /\ lst_pc' = "start"
    /\ main_pc' = "start_threads"
    /\ UNCHANGED <<MEASUREMENT_ITERATIONS, now, end_time, lst_sock, lst_log,
                   pending_commands, delay_records, wifi6_delay_records,
                   wifi4_delay_records>>
    /\ UNCHANGED DiscoveryVars
    /\ UNCHANGED StreamVars

\* lines 616-628: the stream of mode s is created when its group is not empty
StreamCreated(s) ==
    IF s = 6 THEN wifi6_devices # <<>> ELSE wifi4_devices # <<>>

\* lines 609-632: the threads are created and started
MainStartThreads ==
    /\ main_pc = "start_threads"
    /\ st_pc' = [s \in Streams |-> IF StreamCreated(s) THEN "start" ELSE "none"]
    /\ main_pc' = "join_threads"
    /\ UNCHANGED <<MEASUREMENT_ITERATIONS, now, end_time, stop_event, lst_pc,
                   lst_sock, lst_log, st_i, st_j, st_t1, st_sock>>
    /\ UNCHANGED DiscoveryVars
    /\ UNCHANGED RecordVars

\* variant: join() does not return for a thread ended by an exception
StreamEndedNoFail(s) == st_pc[s] \in {"none", "done"}

\* a thread that join() returns for: never started, returned, or ended by an
\* exception
StreamEnded(s) == st_pc[s] \in {"none", "done", "failed"}

\* lines 635-641: every stream thread is joined; after sleep(2) the stop
\* event is set
MainSetStop ==
    /\ main_pc = "join_threads"
    /\ \A s \in Streams : StreamEnded(s)
    /\ stop_event' = TRUE
    /\ main_pc' = "join_listener"
    /\ UNCHANGED <<MEASUREMENT_ITERATIONS, now, end_time, lst_pc, lst_sock,
                   lst_log>>
    /\ UNCHANGED DiscoveryVars
    /\ UNCHANGED StreamVars
    /\ UNCHANGED RecordVars

\* lines 642-647: the listener thread is joined, the averages are printed
MainJoinListener ==
    /\ main_pc = "join_listener"
    /\ lst_pc = "done"
    /\ main_pc' = "done"
    /\ UNCHANGED <<MEASUREMENT_ITERATIONS, now, end_time, stop_event, lst_pc,
                   lst_sock, lst_log>>
    /\ UNCHANGED DiscoveryVars
    /\ UNCHANGED StreamVars
    /\ UNCHANGED RecordVars

(***************************************************************************)
(* run_wifi_type_test, send_commands_to_devices_by_type, send_color_command *)
(***************************************************************************)
\* lines 610-611, 619, 626: global_seq of the stream of mode s
SeqStart(s) == IF s = 6 THEN wifi6_seq_start ELSE wifi4_seq_start

\* variant: every round of a stream uses the stream's first number
StreamSeqFixed(s) == SeqStart(s)

\* line 570
StreamSeq(s) == SeqStart(s) + st_i[s]

\* lines 541-542
TargetDevices(s) == DevicesOfMode(discovered_devices, s)

\* the ip the device loop of lines 551-553 is at
StreamIp(s) == TargetDevices(s)[st_j[s]].ip

StreamKey(s) == <<StreamIp(s), StreamSeq(s)>>

StreamFrame ==
    /\ UNCHANGED <<MEASUREMENT_ITERATIONS, main_pc, now, end_time, stop_event,
                   lst_pc, lst_sock, lst_log>>
    /\ UNCHANGED DiscoveryVars

\* lines 49-52
COLORS ==
    << <<255, 0, 0>>, <<0, 255, 0>>, <<0, 0, 255>>,
       <<255, 255, 0>>, <<255, 0, 255>>, <<16, 16, 16>> >>

\* line 190: the fields of the format "<IQBBBB"
CommandFormat == <<"I", "Q", "B", "B", "B", "B">>

\* variant: the sequence number is packed as an eight-byte integer
FieldSizeWide(c) ==
    CASE c = "I" -> 8 [] c = "Q" -> 8 [] c = "H" -> 2 [] c = "B" -> 1

\* struct: the standard size of a field ("<": no alignment, no padding)
FieldSize(c) ==
    CASE c = "I" -> 4 [] c = "Q" -> 8 [] c = "H" -> 2 [] c = "B" -> 1

\* the n low-order bytes of value, least significant first
RECURSIVE LittleEndian(_, _)
LittleEndian(value, n) ==
    IF n = 0 THEN <<>>
    ELSE <<value % 256>> \o LittleEndian(value \div 256, n - 1)

\* struct.pack("<" + format, *values)
RECURSIVE Pack(_, _)
Pack(format, values) ==
    IF format = <<>> THEN <<>>
    ELSE LittleEndian(Head(values), FieldSize(Head(format)))
             \o Pack(Tail(format), Tail(values))

\* lines 569, 189-190: the message of the command the stream of mode s sends
\* in its round, with the t1 that send_color_command read
StreamMessage(s) ==
    LET color == COLORS[(st_i[s] % Len(COLORS)) + 1] IN
    Pack(CommandFormat,
         <<StreamSeq(s), st_t1[s], CMD_LED_COLOR, color[1], color[2], color[3]>>)

\* lines 562-567: the thread starts and opens its socket
StreamStart(s) ==
    /\ st_pc[s] = "start"
    /\ st_sock' = [st_sock EXCEPT ![s] = "open"]
    /\ st_i' = [st_i EXCEPT ![s] = 0]
    /\ st_pc' = [st_pc EXCEPT ![s] = "round"]
    /\ UNCHANGED <<st_j, st_t1>>
    /\ UNCHANGED RecordVars
    /\ StreamFrame

\* lines 568-571, 538-548: the next round begins; with no device of the
\* stream's mode the call returns at once
StreamRound(s) ==
    /\ st_pc[s] = "round"
    /\ st_i[s] < MEASUREMENT_ITERATIONS
    /\ IF TargetDevices(s) = <<>>
       THEN /\ st_pc' = [st_pc EXCEPT ![s] = "sleep"]
            /\ st_j' = st_j
       ELSE /\ st_pc' = [st_pc EXCEPT ![s] = "send"]
            /\ st_j' = [st_j EXCEPT ![s] = 1]
    /\ UNCHANGED <<st_i, st_t1, st_sock>>
    /\ UNCHANGED RecordVars
    /\ StreamFrame

\* lines 552, 189-196: t1 is read and sendto returns
StreamSendOk(s) ==
    /\ st_pc[s] = "send"
    /\ st_t1' = [st_t1 EXCEPT ![s] = now]
    /\ st_pc' = [st_pc EXCEPT ![s] = "register"]
    /\ UNCHANGED <<st_i, st_j, st_sock>>
    /\ UNCHANGED RecordVars
    /\ StreamFrame

\* lines 191, 193-195, 574-575: sendto raises; nothing catches the error
\* before the thread's top, only the finally of run_wifi_type_test runs
StreamSendFail(s) ==
    /\ st_pc[s] = "send"
    /\ st_pc' = [st_pc EXCEPT ![s] = "failed"]
    /\ st_sock' = [st_sock EXCEPT ![s] = "closed"]
    /\ UNCHANGED <<st_i, st_j, st_t1>>
    /\ UNCHANGED RecordVars
    /\ StreamFrame

\* variant: the round ends after its first device
StreamRegisterOnce(s) ==
    /\ st_pc[s] = "register"
    /\ pending_commands' = PendingPut(pending_commands, StreamKey(s), st_t1[s])
    /\ st_j' = [st_j EXCEPT ![s] = 0]
    /\ st_pc' = [st_pc EXCEPT ![s] = "sleep"]
    /\ st_t1' = [st_t1 EXCEPT ![s] = 0]
    /\ UNCHANGED <<st_i, st_sock>>
    /\ UNCHANGED <<delay_records, wifi6_delay_records, wifi4_delay_records,
                   response_queue>>
    /\ StreamFrame

\* line 553: pending_commands[(ip, seq)] = t1, then the next device
StreamRegister(s) ==
    /\ st_pc[s] = "register"
    /\ pending_commands' = PendingPut(pending_commands, StreamKey(s), st_t1[s])
    /\ IF st_j[s] < Len(TargetDevices(s))
       THEN /\ st_j' = [st_j EXCEPT ![s] = st_j[s] + 1]
            /\ st_pc' = [st_pc EXCEPT ![s] = "send"]
       ELSE /\ st_j' = [st_j EXCEPT ![s] = 0]
            /\ st_pc' = [st_pc EXCEPT ![s] = "sleep"]
    /\ st_t1' = [st_t1 EXCEPT ![s] = 0]
    /\ UNCHANGED <<st_i, st_sock>>
    /\ UNCHANGED <<delay_records, wifi6_delay_records, wifi4_delay_records,
                   response_queue>>
    /\ StreamFrame

\* lines 573, 568: sleep(1), then i advances
StreamSleep(s) ==
    /\ st_pc[s] = "sleep"
    /\ st_i' = [st_i EXCEPT ![s] = st_i[s] + 1]
    /\ st_pc' = [st_pc EXCEPT ![s] = "round"]
    /\ UNCHANGED <<st_j, st_t1, st_sock>>
    /\ UNCHANGED RecordVars
    /\ StreamFrame

\* lines 568, 574-577: the rounds are over, the socket is closed
StreamDone(s) ==
    /\ st_pc[s] = "round"
    /\ ~(st_i[s] < MEASUREMENT_ITERATIONS)
    /\ st_sock' = [st_sock EXCEPT ![s] = "closed"]
    /\ st_pc' = [st_pc EXCEPT ![s] = "done"]
    /\ UNCHANGED <<st_i, st_j, st_t1>>
    /\ UNCHANGED RecordVars
    /\ StreamFrame

(***************************************************************************)
(* response_listener_continuous                                            *)
(***************************************************************************)
\* the response datagrams explored: any sender may deliver any of them at
\* any time (responses are lost, duplicated, reordered or malformed)
ResponseSeqs ==
    {SeqStart(s) + i : s \in Streams, i \in 0..(MaxIterations - 1)} \cup {99}
DeviceRecvTimes == {0}
DeviceSendTimes == {1}
Responses ==
    [len : {22, 30}, seq : ResponseSeqs, t2 : DeviceRecvTimes,
     t3 : DeviceSendTimes]
        \cup {[len |-> 21, seq |-> wifi6_seq_start, t2 |-> 0, t3 |-> 0]}

\* variant: a datagram one byte short is taken as complete
IsCompleteShort(d) == d.len >= RESPONSE_LEN - 1

\* line 258: len(data) >= 22
IsComplete(d) == d.len >= RESPONSE_LEN

\* lines 261-262: t1 = pending_commands.get(key); t1 is not None
IsPending(pending, key) == key \in DOMAIN pending

\* variant: a negative delay is recorded as 0
DelayClamped(t1, t2, t3, t4) ==
    IF (t4 - t1) - (t3 - t2) < 0 THEN 0 ELSE (t4 - t1) - (t3 - t2)

\* line 263: delay = ((t4 - t1) - (t3 - t2)) / 2 / 1000.0, as 2000 * delay
Delay(t1, t2, t3, t4) == (t4 - t1) - (t3 - t2)

\* variant: every sample also goes to the WiFi 6 store
Wifi6AfterAlways(store, devices, ip, delay) ==
    [store EXCEPT ![ip] = Append(@, delay)]

\* lines 267-271: the WiFi 6 store after a hit
Wifi6After(store, devices, ip, delay) ==
    IF HasDevice(devices, ip) /\ DeviceInfo(devices, ip).wifi_mode = 6
    THEN [store EXCEPT ![ip] = Append(@, delay)]
    ELSE store

\* variant: the sample of a WiFi 4 device goes to the lists of every address
Wifi4AfterAll(store, devices, ip, delay) ==
    IF HasDevice(devices, ip) /\ DeviceInfo(devices, ip).wifi_mode # 6
    THEN [a \in DOMAIN store |-> Append(store[a], delay)]
    ELSE store

\* lines 267-274: the WiFi 4 store after a hit
Wifi4After(store, devices, ip, delay) ==
    IF HasDevice(devices, ip) /\ DeviceInfo(devices, ip).wifi_mode # 6
    THEN [store EXCEPT ![ip] = Append(@, delay)]
    ELSE store

\* variant: the sample is put at the front of the list
RecordsAfterFront(store, ip, delay) == [store EXCEPT ![ip] = <<delay>> \o @]

\* line 277: delay_records[ip].append(delay)
RecordsAfter(store, ip, delay) == [store EXCEPT ![ip] = Append(@, delay)]

\* line 283: response_queue.append((ip, seq, delay))
QueueAfter(queue, ip, seq, delay) ==
    Append(queue, [ip |-> ip, seq |-> seq, delay |-> delay])

\* variant: the resolved entry is left in the table
PendingAfterHitKept(pending, key) == pending

\* line 285: del pending_commands[key]
PendingAfterHit(pending, key) == PendingDel(pending, key)

\* variant: an unknown key gets an entry of its own
PendingAfterMissInserted(pending, key) == PendingPut(pending, key, 0)

\* lines 286-287: an unknown key is only logged
PendingAfterMiss(pending, key) == pending

\* variant: a step of the listener empties the devices map
ListenerFrameClears ==
    /\ UNCHANGED <<MEASUREMENT_ITERATIONS, main_pc, now, end_time, stop_event>>
    /\ UNCHANGED <<disc_sock, disc_elapsed, disc_received, disc_last>>
    /\ discovered_devices' = <<>>
    /\ UNCHANGED StreamVars

ListenerFrame ==
    /\ UNCHANGED <<MEASUREMENT_ITERATIONS, main_pc, now, end_time, stop_event>>
    /\ UNCHANGED DiscoveryVars
    /\ UNCHANGED StreamVars

\* lines 245-250: the thread starts, opens and binds its socket
ListenerStart ==
    /\ lst_pc = "start"
    /\ lst_sock' = "open"
    /\ lst_pc' = "loop"
    /\ UNCHANGED lst_log
    /\ UNCHANGED RecordVars
    /\ ListenerFrame

\* line 252: the stop event is clear, the loop body is entered
ListenerLoop ==
    /\ lst_pc = "loop"
    /\ ~stop_event
    /\ lst_pc' = "recv"
    /\ lst_log' = NoLog
    /\ UNCHANGED lst_sock
    /\ UNCHANGED RecordVars
    /\ ListenerFrame

\* variant: the listener leaves only when no command is pending any more
ListenerExitWhenIdle ==
    /\ lst_pc = "loop"
    /\ stop_event
    /\ pending_commands = <<>>
    /\ lst_pc' = "done"
    /\ lst_sock' = "closed"
    /\ lst_log' = NoLog
    /\ UNCHANGED RecordVars
    /\ ListenerFrame

\* lines 252, 296-297: the stop event is set, the loop is left
ListenerExit ==
    /\ lst_pc = "loop"
    /\ stop_event
    /\ lst_pc' = "done"
    /\ lst_sock' = "closed"
    /\ lst_log' = NoLog
    /\ UNCHANGED RecordVars
    /\ ListenerFrame

\* lines 254-289: a datagram d from ip is received and handled
ListenerRecv(ip, d) ==
    /\ lst_pc = "recv"
    /\ LET t4 == now
           key == <<ip, d.seq>>
       IN  IF ~IsComplete(d)
           THEN /\ lst_log' = [kind |-> "incomplete", ip |-> ip, seq |-> 0]
                /\ UNCHANGED RecordVars
           ELSE IF IsPending(pending_commands, key)
           THEN LET delay == Delay(pending_commands[key], d.t2, d.t3, t4) IN
                /\ wifi6_delay_records' =
                       Wifi6After(wifi6_delay_records, discovered_devices, ip, delay)
                /\ wifi4_delay_records' =
                       Wifi4After(wifi4_delay_records, discovered_devices, ip, delay)
                /\ delay_records' = RecordsAfter(delay_records, ip, delay)
                /\ response_queue' = QueueAfter(response_queue, ip, d.seq, delay)
                /\ pending_commands' = PendingAfterHit(pending_commands, key)
                /\ lst_log' = [kind |-> "response", ip |-> ip, seq |-> d.seq]
           ELSE /\ pending_commands' = PendingAfterMiss(pending_commands, key)
                /\ lst_log' = [kind |-> "unknown_seq", ip |-> ip, seq |-> d.seq]
                /\ UNCHANGED <<delay_records, wifi6_delay_records,
                               wifi4_delay_records, response_queue>>
    /\ lst_pc' = "loop"
    /\ UNCHANGED lst_sock
    /\ ListenerFrame

\* lines 290-292: after socket.timeout the loop continues
ListenerAfterTimeout == "loop"

\* variant: another exception ends the thread
ListenerAfterErrorRaised == "done"

\* lines 293-294: after any other exception the loop continues
ListenerAfterError == "loop"

\* lines 254, 290-292: recvfrom times out
ListenerTimeout ==
    /\ lst_pc = "recv"
    /\ lst_pc' = ListenerAfterTimeout
    /\ UNCHANGED <<lst_sock, lst_log>>
    /\ UNCHANGED RecordVars
    /\ ListenerFrame

\* lines 254, 293-294: recvfrom raises another error, which is logged
ListenerError ==
    /\ lst_pc = "recv"
    /\ lst_pc' = ListenerAfterError
    /\ lst_log' = [kind |-> "error", ip |-> "", seq |-> 0]
    /\ UNCHANGED lst_sock
    /\ UNCHANGED RecordVars
    /\ ListenerFrame

(***************************************************************************)
(* The run of main.                                                        *)
(***************************************************************************)
Init ==
    /\ MEASUREMENT_ITERATIONS \in 0..MaxIterations
    /\ main_pc = "start"
    /\ disc_sock = "none"
    /\ disc_elapsed = 0
    /\ disc_received = 0
    /\ disc_last = NoDatagram
    /\ discovered_devices = <<>>
    /\ pending_commands = <<>>
    /\ delay_records = [ip \in IPs |-> <<>>]
    /\ wifi6_delay_records = [ip \in IPs |-> <<>>]
    /\ wifi4_delay_records = [ip \in IPs |-> <<>>]
    /\ response_queue = <<>>
    /\ stop_event = FALSE
    /\ lst_pc = "none"
    /\ lst_sock = "none"
    /\ lst_log = NoLog
    /\ end_time = 0
    /\ st_pc = [s \in Streams |-> "none"]
    /\ st_i = [s \in Streams |-> 0]
    /\ st_j = [s \in Streams |-> 0]
    /\ st_t1 = [s \in Streams |-> 0]
    /\ st_sock = [s \in Streams |-> "none"]
    /\ now = 0

Next ==
    \/ MainStartDiscovery
    \/ \E ip \in IPs, data \in DiscoveryPayloads : DiscoveryRecv(ip, data)
    \/ DiscoveryTimeout
    \/ DiscoveryEnd
    \/ MainNoDevices
    \/ MainStartListener
    \/ MainStartThreads
    \/ MainSetStop
    \/ MainJoinListener
    \/ \E s \in Streams : StreamStart(s)
    \/ \E s \in Streams : StreamRound(s)
    \/ \E s \in Streams : StreamSendOk(s)
    \/ \E s \in Streams : StreamSendFail(s)
    \/ \E s \in Streams : StreamRegister(s)
    \/ \E s \in Streams : StreamSleep(s)
    \/ \E s \in Streams : StreamDone(s)
    \/ ListenerStart
    \/ ListenerLoop
    \/ ListenerExit
    \/ \E ip \in IPs, d \in Responses : ListenerRecv(ip, d)
    \/ ListenerTimeout
    \/ ListenerError
    \/ Tick

Spec == Init /\ [][Next]_vars

(***************************************************************************)
(* The run under fair scheduling: main, every stream thread and the        *)
(* listener thread each go on taking their next step.  recvfrom returns    *)
(* within its timeout (1 s in discovery, 0.2 s in the listener), sendto    *)
(* returns or raises, sleep() returns.  Which datagram arrives, and        *)
(* whether one arrives at all, is left to the network.                     *)
(***************************************************************************)
\* the steps of main that do not wait for a datagram
MainStep ==
    \/ MainStartDiscovery
    \/ DiscoveryTimeout
    \/ DiscoveryEnd
    \/ MainNoDevices
    \/ MainStartListener
    \/ MainStartThreads
    \/ MainSetStop
    \/ MainJoinListener

\* the steps of the stream thread of mode s
StreamStep(s) ==
    \/ StreamStart(s)
    \/ StreamRound(s)
    \/ StreamSendOk(s)
    \/ StreamSendFail(s)
    \/ StreamRegister(s)
    \/ StreamSleep(s)
    \/ StreamDone(s)

\* the steps of the listener thread
ListenerStep ==
    \/ ListenerStart
    \/ ListenerLoop
    \/ ListenerExit
    \/ \E ip \in IPs, d \in Responses : ListenerRecv(ip, d)
    \/ ListenerTimeout
    \/ ListenerError

Fairness ==
    /\ WF_vars(MainStep)
    /\ \A s \in Streams : WF_vars(StreamStep(s))
    /\ WF_vars(ListenerStep)

SpecFair == Init /\ [][Next]_vars /\ Fairness

(***************************************************************************)
(* response_listener (the listener with an overall deadline), run on its   *)
(* own by a caller that owns the stop event.                               *)
(***************************************************************************)
\* the device maps and pending tables the listener is started with
BoundedDevices ==
    { <<[ip |-> "10.0.0.5", short_id |-> <<"a", "b">>, wifi_mode |-> 4]>>,
      <<[ip |-> "10.0.0.5", short_id |-> <<"x", "y">>, wifi_mode |-> 6],
        [ip |-> "10.0.0.9", short_id |-> <<"a", "b">>, wifi_mode |-> 4]>> }

BoundedKeys(devices) ==
    {<<devices[k].ip, SeqStart(devices[k].wifi_mode) + i>> :
        k \in 1..Len(devices), i \in 0..(MaxIterations - 1)}

InitBounded ==
    /\ MEASUREMENT_ITERATIONS = MaxIterations
    /\ main_pc = "response_listener"
    /\ disc_sock = "closed"
    /\ disc_elapsed = DISCOVERY_TIMEOUT
    /\ disc_received = 0
    /\ disc_last = NoDatagram
    /\ discovered_devices \in BoundedDevices
    /\ \E keys \in SUBSET BoundedKeys(discovered_devices) :
          pending_commands = [key \in keys |-> 0]
    /\ delay_records = [ip \in IPs |-> <<>>]
    /\ wifi6_delay_records = [ip \in IPs |-> <<>>]
    /\ wifi4_delay_records = [ip \in IPs |-> <<>>]
    /\ response_queue = <<>>
    /\ stop_event = FALSE
    /\ lst_pc = "start"
    /\ lst_sock = "none"
    /\ lst_log = NoLog
    /\ end_time = 0
    /\ st_pc = [s \in Streams |-> "none"]
    /\ st_i = [s \in Streams |-> 0]
    /\ st_j = [s \in Streams |-> 0]
    /\ st_t1 = [s \in Streams |-> 0]
    /\ st_sock = [s \in Streams |-> "none"]
    /\ now = 0

BoundedFrame ==
    /\ UNCHANGED <<MEASUREMENT_ITERATIONS, main_pc>>
    /\ UNCHANGED DiscoveryVars
    /\ UNCHANGED StreamVars

\* variant: the loop goes on while either condition allows it
BoundedContinueEither(stop, t, deadline) == ~stop \/ t < deadline

\* line 204: not stop_event.is_set() and time.time() < end_time
BoundedContinue(stop, t, deadline) == ~stop /\ t < deadline

\* lines 200-203: the socket is opened, end_time is computed
BoundedStart ==
    /\ lst_pc = "start"
    /\ lst_sock' = "open"
    /\ end_time' = now + LISTENER_TIMEOUT
    /\ lst_pc' = "loop"
    /\ UNCHANGED <<now, stop_event, lst_log>>
    /\ UNCHANGED RecordVars
    /\ BoundedFrame

\* line 204: the loop condition holds
BoundedLoop ==
    /\ lst_pc = "loop"
    /\ BoundedContinue(stop_event, now, end_time)
    /\ lst_pc' = "recv"
    /\ lst_log' = NoLog
    /\ UNCHANGED <<now, stop_event, end_time, lst_sock>>
    /\ UNCHANGED RecordVars
    /\ BoundedFrame

\* lines 204, 241: the loop condition fails, the socket is closed
BoundedExit ==
    /\ lst_pc = "loop"
    /\ ~BoundedContinue(stop_event, now, end_time)
    /\ lst_pc' = "done"
    /\ lst_sock' = "closed"
    /\ lst_log' = NoLog
    /\ UNCHANGED <<now, stop_event, end_time>>
    /\ UNCHANGED RecordVars
    /\ BoundedFrame

\* lines 206-238: a datagram d from ip is received and handled
BoundedRecv(ip, d) ==
    /\ lst_pc = "recv"
    /\ LET t4 == now
           key == <<ip, d.seq>>
       IN  IF ~IsComplete(d)
           THEN /\ lst_log' = [kind |-> "incomplete", ip |-> ip, seq |-> 0]
                /\ UNCHANGED RecordVars
           ELSE IF IsPending(pending_commands, key)
           THEN LET delay == Delay(pending_commands[key], d.t2, d.t3, t4) IN
                /\ wifi6_delay_records' =
                       Wifi6After(wifi6_delay_records, discovered_devices, ip, delay)
                /\ wifi4_delay_records' =
                       Wifi4After(wifi4_delay_records, discovered_devices, ip, delay)
                /\ delay_records' = RecordsAfter(delay_records, ip, delay)
                /\ pending_commands' = PendingAfterHit(pending_commands, key)
                /\ lst_log' = [kind |-> "response", ip |-> ip, seq |-> d.seq]
                /\ UNCHANGED response_queue
           ELSE /\ lst_log' = [kind |-> "unknown_seq", ip |-> ip, seq |-> d.seq]
                /\ UNCHANGED RecordVars
    /\ lst_pc' = "loop"
    /\ UNCHANGED <<now, stop_event, end_time, lst_sock>>
    /\ BoundedFrame

\* lines 206, 239-240: recvfrom times out
BoundedTimeout ==
    /\ lst_pc = "recv"
    /\ lst_pc' = "loop"
    /\ UNCHANGED <<now, stop_event, end_time, lst_sock, lst_log>>
    /\ UNCHANGED RecordVars
    /\ BoundedFrame

\* line 206: recvfrom raises another error; nothing catches it and the
\* function is left with its socket open
BoundedError ==
    /\ lst_pc = "recv"
    /\ lst_pc' = "raised"
    /\ UNCHANGED <<now, stop_event, end_time, lst_sock, lst_log>>
    /\ UNCHANGED RecordVars
    /\ BoundedFrame

\* the caller sets the stop event
CallerSetStop ==
    /\ ~stop_event
    /\ stop_event' = TRUE
    /\ UNCHANGED <<now, end_time, lst_pc, lst_sock, lst_log>>
    /\ UNCHANGED RecordVars
    /\ BoundedFrame

\* time.time() advances
BoundedTick ==
    /\ now < LISTENER_TIMEOUT + MaxTime
    /\ now' = now + 1
    /\ UNCHANGED <<stop_event, end_time, lst_pc, lst_sock, lst_log>>
    /\ UNCHANGED RecordVars
    /\ BoundedFrame

NextBounded ==
    \/ BoundedStart
    \/ BoundedLoop
    \/ BoundedExit
    \/ \E ip \in IPs, d \in Responses : BoundedRecv(ip, d)
    \/ BoundedTimeout
    \/ BoundedError
    \/ CallerSetStop
    \/ BoundedTick

SpecBounded == InitBounded /\ [][NextBounded]_vars

(***************************************************************************)
(* The sequence numbers of the two streams: the loops of run_wifi_type_test *)
(* reduced to the numbers they issue, for the iteration counts at which     *)
(* the two ranges meet.  -i takes any integer (parse_arguments, line 21).   *)
(***************************************************************************)
\* the values of args.iterations explored
SeqIterations == {0, 1, 2, MaxSeqIterations - 1, MaxSeqIterations}

InitSeq ==
    /\ MEASUREMENT_ITERATIONS \in SeqIterations
    /\ main_pc = "join_threads"
    /\ disc_sock = "closed"
    /\ disc_elapsed = DISCOVERY_TIMEOUT
    /\ disc_received = 0
    /\ disc_last = NoDatagram
    /\ discovered_devices =
          <<[ip |-> "10.0.0.5", short_id |-> <<"x", "y">>, wifi_mode |-> 6],
            [ip |-> "10.0.0.9", short_id |-> <<"a", "b">>, wifi_mode |-> 4]>>
    /\ pending_commands = <<>>
    /\ delay_records = [ip \in IPs |-> <<>>]
    /\ wifi6_delay_records = [ip \in IPs |-> <<>>]
    /\ wifi4_delay_records = [ip \in IPs |-> <<>>]
    /\ response_queue = <<>>
    /\ stop_event = FALSE
    /\ lst_pc = "start"
    /\ lst_sock = "none"
    /\ lst_log = NoLog
    /\ end_time = 0
    /\ st_pc = [s \in Streams |-> "start"]
    /\ st_i = [s \in Streams |-> 0]
    /\ st_j = [s \in Streams |-> 0]
    /\ st_t1 = [s \in Streams |-> 0]
    /\ st_sock = [s \in Streams |-> "none"]
    /\ now = 0

\* lines 568-571: the round i begins and seq = global_seq + i is issued to
\* send_commands_to_devices_by_type (the sends of the round are not followed)
SeqRound(s) ==
    /\ st_pc[s] = "round"
    /\ st_i[s] < MEASUREMENT_ITERATIONS
    /\ st_pc' = [st_pc EXCEPT ![s] = "sleep"]
    /\ UNCHANGED <<st_i, st_j, st_t1, st_sock>>
    /\ UNCHANGED RecordVars
    /\ StreamFrame

\* the stream of mode s is in a round, with the number StreamSeq(s) issued
SeqIssued(s) == st_pc[s] = "sleep"

NextSeq ==
    \/ \E s \in Streams : StreamStart(s)
    \/ \E s \in Streams : SeqRound(s)
    \/ \E s \in Streams : StreamSleep(s)
    \/ \E s \in Streams : StreamDone(s)

SpecSeq == InitSeq /\ [][NextSeq]_vars

(***************************************************************************)
(* Properties.                                                             *)
(***************************************************************************)
\* the keys the listener has resolved, in the order of resolution
ResolvedKeys ==
    {<<response_queue[n].ip, response_queue[n].seq>> :
        n \in 1..Len(response_queue)}

\* the entries of the queue that belong to ip, in queue order
RECURSIVE QueueOf(_, _)
QueueOf(queue, ip) ==
    IF queue = <<>> THEN <<>>
    ELSE IF Head(queue).ip = ip
         THEN <<Head(queue)>> \o QueueOf(Tail(queue), ip)
         ELSE QueueOf(Tail(queue), ip)

LoggedKey == <<lst_log.ip, lst_log.seq>>

\* C1: a key of pending_commands yields at most one delay sample: the first
\* matching response removes the key, and a later response with the same
\* (ip, seq) is an unknown-seq miss that appends no sample and does not
\* put the key back.
C1_AtMostOneSamplePerKey ==
    /\ \A m, n \in 1..Len(response_queue) :
          (/\ response_queue[m].ip = response_queue[n].ip
           /\ response_queue[m].seq = response_queue[n].seq) => m = n
    /\ \A ip \in IPs : Len(delay_records[ip]) = Len(QueueOf(response_queue, ip))
    /\ \A key \in ResolvedKeys : key \notin DOMAIN pending_commands

\* C1 witness: a response for an already resolved key has been handled as an
\* unknown seq
C1_Witness ==
    /\ lst_log.kind = "unknown_seq"
    /\ LoggedKey \in ResolvedKeys

\* C2: a complete response whose key is not in pending_commands changes none
\* of pending_commands, delay_records, wifi6_delay_records,
\* wifi4_delay_records and response_queue, and the listener goes on with its
\* loop.
C2_MissChangesNothing ==
    [][\A ip \in IPs, d \in Responses :
          (/\ ListenerRecv(ip, d)
           /\ IsComplete(d)
           /\ <<ip, d.seq>> \notin DOMAIN pending_commands)
          => /\ pending_commands' = pending_commands
             /\ delay_records' = delay_records
             /\ wifi6_delay_records' = wifi6_delay_records
             /\ wifi4_delay_records' = wifi4_delay_records
             /\ response_queue' = response_queue
             /\ lst_pc' = "loop"]_vars

\* C2 witness: an unknown seq has been logged while commands are pending and
\* samples are recorded
C2_Witness ==
    /\ lst_log.kind = "unknown_seq"
    /\ LoggedKey \notin ResolvedKeys
    /\ pending_commands # <<>>
    /\ response_queue # <<>>

\* the keys the stream of mode s has sent so far (sendto has returned)
SentKeys(s) ==
    LET targets == TargetDevices(s)
        full == IF st_pc[s] = "sleep" THEN st_i[s] + 1 ELSE st_i[s]
        upto == CASE st_pc[s] = "send" -> st_j[s] - 1
                  [] st_pc[s] = "register" -> st_j[s]
                  [] st_pc[s] = "failed" -> st_j[s] - 1
                  [] OTHER -> 0
    IN  {<<targets[k].ip, SeqStart(s) + i>> :
            k \in 1..Len(targets), i \in 0..(full - 1)}
        \cup {<<targets[k].ip, SeqStart(s) + st_i[s]>> : k \in 1..upto}

\* the keys the stream of mode s has put into pending_commands so far
RegisteredKeys(s) ==
    IF st_pc[s] = "register" THEN SentKeys(s) \ {StreamKey(s)} ELSE SentKeys(s)

\* C3: the entry of a sent command is in pending_commands before the listener
\* can handle a response for its key: a response to a command that sendto
\* has sent is never looked up while the key is still unregistered.
C3_RegisteredBeforeResponse ==
    [][\A ip \in IPs, d \in Responses :
          (/\ ListenerRecv(ip, d)
           /\ IsComplete(d)
           /\ \E s \in Streams : <<ip, d.seq>> \in SentKeys(s)
           /\ <<ip, d.seq>> \notin ResolvedKeys)
          => <<ip, d.seq>> \in DOMAIN pending_commands]_vars

\* C4: a sendto that raises does not abort the batch: the key is still
\* registered, and the stream still sends to the other devices of the round
\* and runs its other rounds, so a stream that has ended has run every round
\* and registered a key for every device of every round.
C4_SendFailureDoesNotAbort ==
    \A s \in Streams :
        st_pc[s] \in {"done", "failed"} =>
            /\ st_i[s] = MEASUREMENT_ITERATIONS
            /\ \A k \in 1..Len(TargetDevices(s)) :
               \A i \in 0..(MEASUREMENT_ITERATIONS - 1) :
                  LET key == <<TargetDevices(s)[k].ip, SeqStart(s) + i>> IN
                  key \in DOMAIN pending_commands \/ key \in ResolvedKeys

\* the sequence numbers of the samples of ip, in the order of the list
SampleSeqs(ip) ==
    LET q == QueueOf(response_queue, ip) IN [n \in 1..Len(q) |-> q[n].seq]

SampleDelays(ip) ==
    LET q == QueueOf(response_queue, ip) IN [n \in 1..Len(q) |-> q[n].delay]

\* C5 as stated: the samples of a device are in send order, that is in
\* increasing sequence number, whatever the order of the responses.
C5_SendOrder ==
    \A ip \in IPs :
        /\ delay_records[ip] = SampleDelays(ip)
        /\ \A m, n \in 1..Len(SampleSeqs(ip)) :
              m < n => SampleSeqs(ip)[m] < SampleSeqs(ip)[n]

\* C5 amended: the samples of a device are in the order in which the
\* listener resolved their responses (arrival order), in delay_records and
\* in the store of the device's mode.
C5_ArrivalOrder ==
    \A ip \in IPs :
        /\ delay_records[ip] = SampleDelays(ip)
        /\ HasDevice(discovered_devices, ip) =>
              IF DeviceInfo(discovered_devices, ip).wifi_mode = 6
              THEN wifi6_delay_records[ip] = SampleDelays(ip)
              ELSE wifi4_delay_records[ip] = SampleDelays(ip)

\* C5 witness: two responses of a device were resolved against the send
\* order and gave different samples
C5_Witness ==
    \E ip \in IPs :
        /\ Len(delay_records[ip]) = 2
        /\ SampleSeqs(ip)[1] > SampleSeqs(ip)[2]
        /\ delay_records[ip][1] # delay_records[ip][2]

\* C6 as stated: once main has set the stop event and joined the listener,
\* pending_commands is empty, also when commands got no response.  It is
\* stated for the runs in which no send fails, where only missing responses
\* can leave an entry.
C6_EmptyAfterJoin ==
    (main_pc = "done" /\ \A s \in Streams : st_pc[s] # "failed")
        => pending_commands = <<>>

\* C6 amended: once main has set the stop event and joined the listener,
\* pending_commands holds exactly the registered keys that no response
\* resolved: nothing evicts an entry.
C6_UnansweredRemain ==
    main_pc = "done" =>
        DOMAIN pending_commands =
            UNION {RegisteredKeys(s) : s \in Streams} \ ResolvedKeys

\* C6 witness: the run is over, some commands were resolved and others are
\* still in the table
C6_Witness ==
    /\ main_pc = "done"
    /\ pending_commands # <<>>
    /\ response_queue # <<>>

\* C8: the continuous listener leaves its receive loop only in a state where
\* the stop event is set: no timeout, short datagram, unknown key, hit or
\* handled error makes it leave while the stop event is clear.
C8_ExitOnlyWhenStopped ==
    [][(lst_pc \in {"loop", "recv"} /\ lst_pc' \notin {"loop", "recv"})
          => stop_event]_vars

\* C8 witness: the listener is back at its loop condition after an error, with
\* samples recorded and the stop event clear
C8_Witness ==
    /\ lst_pc = "loop"
    /\ lst_log.kind = "error"
    /\ response_queue # <<>>
    /\ ~stop_event

\* what each matching reply of DiscoveryPayloads declares, read off the text:
\* its short id, and its mode field (an integer, absent, or not an integer)
DeclaredReplies ==
    { [data |-> <<MARKER, ":", "a", "b", ":", "4">>,
       short_id |-> <<"a", "b">>, field |-> "integer", mode |-> 4],
      [data |-> <<MARKER, ":", "a", "b", ":", " ", "0", "4", "\n">>,
       short_id |-> <<"a", "b">>, field |-> "integer", mode |-> 4],
      [data |-> <<MARKER, ":", "x", "y">>,
       short_id |-> <<"x", "y">>, field |-> "absent", mode |-> 0],
      [data |-> <<MARKER, ":", "x", "y", ":", "n">>,
       short_id |-> <<"x", "y">>, field |-> "invalid", mode |-> 0],
      [data |-> <<MARKER, ":", "x", "y", ":">>,
       short_id |-> <<"x", "y">>, field |-> "invalid", mode |-> 0],
      [data |-> <<" ", MARKER, ":", " ", "x", "y", " ", ":", "6", ":", "4">>,
       short_id |-> <<"x", "y">>, field |-> "integer", mode |-> 6],
      [data |-> <<MARKER, ":", "c", ":", "5">>,
       short_id |-> <<"c">>, field |-> "integer", mode |-> 5] }

\* C9: within a discovery round discovered_devices holds at most one entry per
\* address, with the short id and the mode of the first matching reply of
\* that address; later replies of the address, whatever they declare, do not
\* change it.
C9_FirstReplyWins ==
    [][/\ \A m, n \in 1..Len(discovered_devices') :
             discovered_devices'[m].ip = discovered_devices'[n].ip => m = n
       /\ \A k \in 1..Len(discovered_devices) :
             /\ k <= Len(discovered_devices')
             /\ discovered_devices'[k] = discovered_devices[k]
       /\ \A ip \in IPs, r \in DeclaredReplies :
             (DiscoveryRecv(ip, r.data) /\ ~HasDevice(discovered_devices, ip))
             => /\ HasDevice(discovered_devices', ip)
                /\ DeviceInfo(discovered_devices', ip).short_id = r.short_id
                /\ r.field = "integer" =>
                      DeviceInfo(discovered_devices', ip).wifi_mode = r.mode]_vars

\* C9 witness: the address registered by a reply without a mode has sent a
\* second reply that declares mode 4, and its entry is the first one's
C9_Witness ==
    /\ main_pc = "discovery"
    /\ disc_received = 2
    /\ disc_last.data = <<MARKER, ":", "a", "b", ":", "4">>
    /\ discovered_devices =
          <<[ip |-> disc_last.ip, short_id |-> <<"x", "y">>, wifi_mode |-> 6]>>

\* C10: a matching reply with an integer mode field registers the device with
\* that mode; one with no mode field, or with a mode field that is not an
\* integer, registers it with the default mode 6.
C10_DeclaredOrDefaultMode ==
    [][\A ip \in IPs, r \in DeclaredReplies :
          (DiscoveryRecv(ip, r.data) /\ ~HasDevice(discovered_devices, ip))
          => /\ HasDevice(discovered_devices', ip)
             /\ DeviceInfo(discovered_devices', ip).wifi_mode =
                   IF r.field = "integer" THEN r.mode ELSE 6]_vars

\* C10 witness: the first datagram of the round, with a mode field that is not
\* an integer, has registered its sender with mode 6
C10_Witness ==
    /\ disc_received = 1
    /\ disc_last.data = <<MARKER, ":", "x", "y", ":", "n">>
    /\ discovered_devices =
          <<[ip |-> disc_last.ip, short_id |-> <<"x", "y">>, wifi_mode |-> 6]>>

\* C7 as stated: response_listener leaves its receive loop only when the stop
\* event is set and the overall deadline has elapsed, and keeps receiving
\* while only one of the two holds.
C7_ExitNeedsBoth ==
    [][(lst_pc = "loop" /\ lst_pc' # "loop")
          => IF stop_event /\ ~(now < end_time)
             THEN lst_pc' = "done"
             ELSE lst_pc' = "recv"]_vars

\* C7 amended: response_listener leaves its receive loop as soon as the stop
\* event is set or the overall deadline has elapsed, either one alone; it
\* keeps receiving only while the stop event is clear and the deadline has
\* not elapsed, and it never leaves the loop from a receive that returned or
\* timed out.
C7_ExitOnEither ==
    [][/\ (lst_pc = "loop" /\ lst_pc' # "loop")
             => IF stop_event \/ ~(now < end_time)
                THEN lst_pc' = "done"
                ELSE lst_pc' = "recv"
       /\ lst_pc = "recv" => lst_pc' \in {"recv", "loop", "raised"}]_vars

\* C7 witness: the listener has left its loop on the stop event alone, before
\* the deadline, after a sample was recorded
C7_Witness ==
    /\ lst_pc = "done"
    /\ stop_event
    /\ now < end_time
    /\ \E ip \in IPs : delay_records[ip] # <<>>

\* C11: a discovery datagram that cannot be decoded as text, or whose text
\* does not start with the reply marker, is ignored: discovered_devices is
\* unchanged and the discovery loop goes on receiving, with its socket open
\* until the loop ends and closes it.
C11_UnparseableIgnored ==
    [][\A ip \in IPs, data \in DiscoveryPayloads :
          (/\ DiscoveryRecv(ip, data)
           /\ (~Decodable(data) \/ ~StartsWithMarker(Strip(data))))
          => /\ discovered_devices' = discovered_devices
             /\ main_pc' = "discovery"
             /\ disc_sock' = "open"]_vars

\* C12: when discovery ends with an empty device map, main returns the
\* no-devices outcome: from then on the listener thread and the dispatch
\* streams are never started, no command or listener socket is opened, and
\* pending_commands and the sample stores stay empty.
C12_EmptyDiscoveryStartsNothing ==
    (main_pc \notin {"start", "discovery", "crashed"} /\ discovered_devices = <<>>)
        => /\ main_pc \in {"discovered", "no_devices"}
           /\ lst_pc = "none"
           /\ lst_sock = "none"
           /\ \A s \in Streams : st_pc[s] = "none" /\ st_sock[s] = "none"
           /\ pending_commands = <<>>
           /\ response_queue = <<>>
           /\ \A ip \in IPs :
                 /\ delay_records[ip] = <<>>
                 /\ wifi6_delay_records[ip] = <<>>
                 /\ wifi4_delay_records[ip] = <<>>

\* C12 witness: main has returned the no-devices outcome after a discovery
\* that ran to its timeout and closed its socket
C12_Witness ==
    /\ main_pc = "no_devices"
    /\ disc_sock = "closed"
    /\ disc_elapsed = DISCOVERY_TIMEOUT
    /\ discovered_devices = <<>>

\* the keys that were put into pending_commands so far: those still in the
\* table and those a response has resolved
InsertedKeys == DOMAIN pending_commands \cup ResolvedKeys

\* C13: no (ip, seq) key is put into pending_commands by two different
\* streams, and no key is put twice during a run: an insert never finds its
\* key in the table or among the resolved keys, the key was not sent by the
\* other stream, and the two streams have no target address in common.
C13_NoKeyCollision ==
    [][/\ \A s \in Streams :
             StreamRegister(s) =>
                 /\ StreamKey(s) \notin InsertedKeys
                 /\ \A t \in Streams \ {s} : StreamKey(s) \notin SentKeys(t)
                 /\ DOMAIN pending_commands' =
                        DOMAIN pending_commands \cup {StreamKey(s)}
       /\ \A s, t \in Streams :
             s # t =>
                 \A m \in 1..Len(TargetDevices(s)), n \in 1..Len(TargetDevices(t)) :
                     TargetDevices(s)[m].ip # TargetDevices(t)[n].ip]_vars

\* C13 witness: both streams have registered the key of their second round
C13_Witness ==
    /\ \E ip \in IPs : <<ip, wifi6_seq_start + 1>> \in InsertedKeys
    /\ \E ip \in IPs : <<ip, wifi4_seq_start + 1>> \in InsertedKeys

\* the key of device k of the stream of mode s in round i
RoundKey(s, k, i) == <<TargetDevices(s)[k].ip, SeqStart(s) + i>>

\* C15: within a stream the commands are sent in round order: when a command
\* of round i is sent, every command of the earlier rounds, to every target
\* device, and the commands of round i to the devices before it have been
\* sent and registered, and none of a later round has; the sequence number
\* of the stream grows by exactly one from a round to the next.
C15_RoundOrder ==
    [][\A s \in Streams :
          /\ StreamSendOk(s) =>
                \A k \in 1..Len(TargetDevices(s)) :
                \A i \in 0..(MEASUREMENT_ITERATIONS - 1) :
                    RoundKey(s, k, i) \in InsertedKeys
                        <=> (i < st_i[s] \/ (i = st_i[s] /\ k < st_j[s]))
          /\ StreamRegister(s) =>
                DOMAIN pending_commands' \ DOMAIN pending_commands =
                    {<<StreamIp(s), SeqStart(s) + st_i[s]>>}
          /\ StreamSleep(s) => st_i'[s] = st_i[s] + 1]_vars

\* C15 witness: a stream with two target devices is sending the second
\* command of its second round
C15_Witness ==
    \E s \in Streams :
        /\ Len(TargetDevices(s)) = 2
        /\ st_pc[s] = "register"
        /\ st_i[s] = 1
        /\ st_j[s] = 2

\* C16: the failure of a stream (it ended on a send error, or it has no
\* target device) does not affect its sibling: the sibling can always take
\* its next step, once done it has run all M rounds and registered a key for
\* each of its devices in each round, and main still sets the stop event
\* and joins the listener.
C16_SiblingUnaffected ==
    /\ \A s, t \in Streams :
          (s # t /\ (st_pc[s] = "failed" \/ TargetDevices(s) = <<>>)) =>
              /\ st_pc[t] \in {"start", "round", "send", "register", "sleep"} =>
                    ENABLED (\/ StreamStart(t) \/ StreamRound(t)
                             \/ StreamSendOk(t) \/ StreamRegister(t)
                             \/ StreamSleep(t) \/ StreamDone(t))
              /\ st_pc[t] = "done" =>
                    /\ st_i[t] = MEASUREMENT_ITERATIONS
                    /\ \A k \in 1..Len(TargetDevices(t)) :
                       \A i \in 0..(MEASUREMENT_ITERATIONS - 1) :
                           RoundKey(t, k, i) \in InsertedKeys
    /\ (main_pc = "join_threads"
            /\ \A s \in Streams : st_pc[s] \in {"none", "done", "failed"})
          => ENABLED MainSetStop
    /\ main_pc = "join_listener" =>
          /\ stop_event
          /\ ENABLED (\/ ListenerStart \/ ListenerLoop \/ ListenerExit
                      \/ ListenerTimeout \/ MainJoinListener)
    /\ main_pc = "done" => (stop_event /\ lst_pc = "done")

\* C16 witness: the run is over, the WiFi 6 stream ended on a send error and
\* the WiFi 4 stream has registered both of its rounds
C16_Witness ==
    /\ main_pc = "done"
    /\ st_pc[6] = "failed"
    /\ st_pc[4] = "done"
    /\ \E ip \in IPs : /\ <<ip, wifi4_seq_start>> \in InsertedKeys
                       /\ <<ip, wifi4_seq_start + 1>> \in InsertedKeys

\* C14: for every iteration count M, the sequence numbers issued by the WiFi 6
\* stream (1000 + i, i in 0..M-1) and those issued by the WiFi 4 stream
\* (2000 + i) are disjoint ranges: a number issued by one stream is never a
\* number issued by the other.
C14_DisjointRanges ==
    \A s, t \in Streams :
        (s # t /\ SeqIssued(s) /\ SeqIssued(t)) => StreamSeq(s) # StreamSeq(t)

\* C17 as stated: the command message that send_color_command builds
\* (uint32 sequence, uint64 send timestamp, uint8 command code, uint8 r, g, b,
\* little-endian, unpadded) is exactly 17 bytes long.
C17_SeventeenBytes ==
    \A s \in Streams : st_pc[s] = "register" => Len(StreamMessage(s)) = 17

\* C17 amended: the command message is exactly 16 bytes long: four bytes of
\* sequence number, eight of timestamp, then the command code and r, g, b,
\* each the little-endian bytes of its field.
C17_SixteenBytes ==
    \A s \in Streams :
        st_pc[s] = "register" =>
            LET m == StreamMessage(s)
                color == COLORS[(st_i[s] % Len(COLORS)) + 1]
            IN  /\ Len(m) = 16
                /\ m[1] + 256 * m[2] + 65536 * m[3] + 65536 * 256 * m[4]
                       = SeqStart(s) + st_i[s]
                /\ m[5] = st_t1[s] /\ \A k \in 6..12 : m[k] = 0
                /\ m[13] = CMD_LED_COLOR
                /\ <<m[14], m[15], m[16]>> = color

\* C17 witness: the WiFi 4 stream has sent the command of its second round,
\* seq 2001 at t1 = 1 with the second colour
C17_Witness ==
    /\ st_pc[4] = "register"
    /\ StreamMessage(4) =
          <<209, 7, 0, 0, 1, 0, 0, 0, 0, 0, 0, 0, 3, 0, 255, 0>>

\* C18: for a resolved exchange the recorded sample is
\* (((t4 - t1) - (t3 - t2)) / 2) / 1000, that is 2000 * delay_ms is
\* (t4 - t1) - (t3 - t2), with t1 the value stored in pending_commands for
\* the key, t2 and t3 from the response and t4 the local receive instant; it
\* is appended as it is, negative or not, to delay_records and to the queue.
C18_DelayFormula ==
    [][\A ip \in IPs, d \in Responses :
          (/\ ListenerRecv(ip, d)
           /\ d.len >= 22
           /\ <<ip, d.seq>> \in DOMAIN pending_commands)
          => LET t1 == pending_commands[<<ip, d.seq>>]
                 t4 == now
                 sample == (t4 - t1) - (d.t3 - d.t2)
             IN  /\ delay_records' =
                        [delay_records EXCEPT ![ip] = Append(@, sample)]
                 /\ response_queue' =
                        Append(response_queue,
                               [ip |-> ip, seq |-> d.seq, delay |-> sample])]_vars

\* C18 witness: a device has a negative sample followed by a sample of 0
C18_Witness ==
    \E ip \in IPs : delay_records[ip] = <<-1, 0>>

\* C19: a response datagram shorter than 22 bytes is rejected: the tables
\* and the sample stores are unchanged, nothing is looked up (the log line is
\* the incomplete-data one) and the loop goes on; a datagram of 22 bytes or
\* more has the outcome of its first 22 bytes alone.
C19_ShortRejectedTailIgnored ==
    [][\A ip \in IPs, d \in Responses :
          /\ (ListenerRecv(ip, d) /\ d.len < 22)
                => /\ UNCHANGED RecordVars
                   /\ lst_log'.kind = "incomplete"
                   /\ lst_pc' = "loop"
          /\ (ListenerRecv(ip, d) /\ d.len >= 22)
                => /\ ListenerRecv(ip, [d EXCEPT !.len = 22])
                   /\ lst_log'.kind \in {"response", "unknown_seq"}]_vars

\* C19 witness: a short datagram was rejected while the key its first bytes
\* spell is in pending_commands
C19_Witness ==
    /\ lst_pc = "loop"
    /\ lst_log.kind = "incomplete"
    /\ <<lst_log.ip, wifi6_seq_start>> \in DOMAIN pending_commands

\* C20: once discovery has returned, no step of a stream, of the listener or
\* of main changes discovered_devices; the listener and the streams exist
\* only after discovery has returned and closed its socket.
C20_DevicesReadOnly ==
    [][/\ main_pc \notin {"start", "discovery"}
             => discovered_devices' = discovered_devices
       /\ (lst_pc' # "none" \/ \E s \in Streams : st_pc'[s] # "none")
             => /\ main_pc \notin {"start", "discovery", "crashed"}
                /\ disc_sock = "closed"]_vars

\* C20 witness: the run is over with two devices in the map and samples
\* recorded
C20_Witness ==
    /\ main_pc = "done"
    /\ Len(discovered_devices) = 2
    /\ response_queue # <<>>

\* the run is over: main has returned or was left by an exception
RunEnded == main_pc \in {"no_devices", "done", "crashed"}

\* C21: on every exit path of a run (empty discovery, normal completion, a
\* stream ended by a send error, a discovery receive that raised) every
\* socket that was opened is closed and no listener thread is running.
C21_SocketsClosedOnExit ==
    RunEnded =>
        /\ disc_sock \in {"none", "closed"}
        /\ lst_sock \in {"none", "closed"}
        /\ \A s \in Streams : st_sock[s] \in {"none", "closed"}
        /\ lst_pc \in {"none", "done"}

\* C22: on a hit for (ip, seq) the listener appends exactly one sample to
\* delay_records[ip] and one to the store of the device's discovered mode
\* (wifi6_delay_records for mode 6, wifi4_delay_records otherwise), removes
\* exactly that key from pending_commands, and leaves the other keys, their
\* t1, the other store of the device and the lists of every other address
\* as they were.
C22_HitFrame ==
    [][\A ip \in IPs, d \in Responses :
          (/\ ListenerRecv(ip, d)
           /\ d.len >= 22
           /\ <<ip, d.seq>> \in DOMAIN pending_commands)
          => LET mode == DeviceInfo(discovered_devices, ip).wifi_mode
                 last == delay_records'[ip][Len(delay_records'[ip])]
             IN  /\ HasDevice(discovered_devices, ip)
                 /\ Len(delay_records'[ip]) = Len(delay_records[ip]) + 1
                 /\ SubSeq(delay_records'[ip], 1, Len(delay_records[ip]))
                        = delay_records[ip]
                 /\ IF mode = 6
                    THEN /\ wifi6_delay_records'[ip] =
                                Append(wifi6_delay_records[ip], last)
                         /\ wifi4_delay_records'[ip] = wifi4_delay_records[ip]
                    ELSE /\ wifi4_delay_records'[ip] =
                                Append(wifi4_delay_records[ip], last)
                         /\ wifi6_delay_records'[ip] = wifi6_delay_records[ip]
                 /\ \A other \in IPs \ {ip} :
                        /\ delay_records'[other] = delay_records[other]
                        /\ wifi6_delay_records'[other] = wifi6_delay_records[other]
                        /\ wifi4_delay_records'[other] = wifi4_delay_records[other]
                 /\ DOMAIN pending_commands' =
                        DOMAIN pending_commands \ {<<ip, d.seq>>}
                 /\ \A key \in DOMAIN pending_commands' :
                        pending_commands'[key] = pending_commands[key]]_vars

\* C22 witness: a response of a WiFi 4 device was resolved while another key
\* is pending and the other device has a sample of its own
C22_Witness ==
    /\ lst_log.kind = "response"
    /\ lst_log.seq >= wifi4_seq_start
    /\ pending_commands # <<>>
    /\ \E other \in IPs \ {lst_log.ip} : wifi6_delay_records[other] # <<>>

\* C23: with a non-empty device map the one listener thread is started
\* before any stream sends its first command, a listener is never started
\* while one exists, and the stop event is set only after every stream has
\* finished all of its rounds.
C23_ListenerFirstStopLast ==
    [][/\ (\E s \in Streams : st_pc'[s] # "none") => lst_pc' # "none"
       /\ (lst_pc # "start" /\ lst_pc' = "start") => lst_pc = "none"
       /\ stop_event' =>
             \A s \in Streams :
                 \/ st_pc'[s] = "none"
                 \/ st_pc'[s] = "done" /\ st_i'[s] = MEASUREMENT_ITERATIONS]_vars

\* C25: every discovered device, whatever its mode, is in the target set of
\* exactly one started stream and has been sent one command in each round
\* the stream has completed; a device of main's non-6 group is a target of
\* the stream started for that group.
C25_EveryDeviceTargeted ==
    main_pc \in {"join_threads", "join_listener", "done"} =>
        \A n \in 1..Len(discovered_devices) :
            LET ip == discovered_devices[n].ip
                targeting ==
                    {s \in Streams :
                        /\ StreamCreated(s)
                        /\ \E k \in 1..Len(TargetDevices(s)) :
                              TargetDevices(s)[k].ip = ip}
            IN  /\ Cardinality(targeting) = 1
                /\ \A s \in targeting :
                   \A i \in 0..(st_i[s] - 1) :
                       <<ip, SeqStart(s) + i>> \in InsertedKeys

\* the number of commands registered so far for the address ip
RegisteredFor(ip) ==
    Cardinality({key \in UNION {RegisteredKeys(s) : s \in Streams} :
                    key[1] = ip})

\* C26: in every reachable state every key of pending_commands has its ip in
\* discovered_devices; for every ip the length of delay_records[ip] is the
\* sum of the lengths of its WiFi 6 and WiFi 4 lists; the samples of a
\* device are only in the store of its discovered mode; and a device never
\* has more samples than commands registered for it.
C26_TablesConsistent ==
    /\ \A key \in DOMAIN pending_commands :
          HasDevice(discovered_devices, key[1])
    /\ \A ip \in IPs :
          /\ Len(delay_records[ip]) =
                Len(wifi6_delay_records[ip]) + Len(wifi4_delay_records[ip])
          /\ wifi6_delay_records[ip] # <<>> =>
                /\ HasDevice(discovered_devices, ip)
                /\ DeviceInfo(discovered_devices, ip).wifi_mode = 6
          /\ wifi4_delay_records[ip] # <<>> =>
                /\ HasDevice(discovered_devices, ip)
                /\ DeviceInfo(discovered_devices, ip).wifi_mode # 6
          /\ Len(delay_records[ip]) <= RegisteredFor(ip)

\* C26 witness: a WiFi 6 device and a WiFi 4 device both have samples, one
\* of them as many as its registered commands, while a key is still pending
C26_Witness ==
    /\ \E ip \in IPs : Len(wifi6_delay_records[ip]) = 2
    /\ \E ip \in IPs : Len(wifi4_delay_records[ip]) = 1
    /\ pending_commands # <<>>

\* the dispatch phase is over: every stream thread has ended, the stop event
\* is set, the listener has left its loop and main has joined it
DispatchEnded ==
    /\ main_pc = "done"
    /\ \A s \in Streams : StreamEnded(s)
    /\ stop_event
    /\ lst_pc = "done"

\* C24: every run terminates under fair scheduling: whatever responses are
\* delivered, lost, duplicated or malformed, the run ends; unless it ended
\* in discovery (nothing found, or an error), it ends with every stream
\* thread ended, the stop event set, the listener out of its loop and
\* main's join of the listener returned.
C24_Terminates ==
    <>(main_pc \in {"no_devices", "crashed"} \/ DispatchEnded)

\* C24 witness: a run with two rounds is over after a resolved response, an
\* unanswered command and a stream that has run both rounds
C24_Witness ==
    /\ DispatchEnded
    /\ MEASUREMENT_ITERATIONS = 2
    /\ \E s \in Streams : st_pc[s] = "done" /\ st_i[s] = 2
    /\ Len(response_queue) >= 1
    /\ Cardinality(DOMAIN pending_commands) >= 1

====
